---- MODULE Spec2Model ----
(***************************************************************************)
(* Model of packages/desktop/src-tauri/src/lib.rs: the auth deep-link      *)
(* handler (token format check, origin allow-list, navigation with one     *)
(* fallback) and the background update task (24h throttle file, hourly     *)
(* poll).                                                                  *)
(*                                                                         *)
(* Text is modelled as a sequence of one-character strings (tokens, file   *)
(* contents) or of lexemes (URLs: the delimiters ":" "/" "?" "#" "@" "="   *)
(* "&" "," are lexemes of their own, every other lexeme is a word).        *)
(***************************************************************************)
EXTENDS Integers, Sequences, FiniteSets, TLC

VARIABLES
    call,       \* pure-function harness: the call under evaluation and its result
    env,        \* process environment: whether HACKERAI_ALLOWED_HOSTS is set, and its text
    url,        \* the deep link handed to handle_auth_deep_link in this invocation
    window,     \* whether get_webview_window("main") returned a window
    navs,       \* window.navigate calls of this invocation, in order: target, result
    log,        \* log records written by this invocation, in order
    pc,         \* background update task: the step it is at
    now,        \* wall clock, seconds since the Unix epoch
    dir,        \* whether app.path().app_data_dir() resolves
    file,       \* last_update_check: exists, readable, content
    ulog,       \* log records of the task in the current cycle, in order
    shown,      \* dialogs shown by check_for_updates in the current cycle, in order
    decided,    \* why the current cycle runs a check or not: startup, due, not_due
    lastSave,   \* the call of save_update_check_timestamp in the current cycle
    checks,     \* calls of check_for_updates in the current cycle
    wakes,      \* wakes from the hourly sleep so far
    answers,    \* the user's answers to the dialogs of the current cycle, in order
    lastCheck,  \* the latest call of check_for_updates: whether there was one, its time
    writesOk    \* every fs::write of the timestamp so far succeeded

linkVars == <<url, window, navs, log>>
updVars ==
    <<pc, now, dir, file, ulog, shown, decided, lastSave, checks, wakes, answers, lastCheck,
      writesOk>>
vars == <<call, env, url, window, navs, log, pc, now, dir, file, ulog, shown, decided, lastSave,
          checks, wakes, answers, lastCheck, writesOk>>

None == "<none>"

-----------------------------------------------------------------------------
(* Characters.  A non-ASCII character is written by its code point.        *)

Digits == {"0", "1", "2", "3", "4", "5", "6", "7", "8", "9"}
HexLower == {"a", "b", "c", "d", "e", "f"}
HexUpper == {"A", "B", "C", "D", "E", "F"}
NonAscii == {"U+00E9", "U+FF11"}

\* char::is_ascii_hexdigit
is_ascii_hexdigit(c) == c \in Digits \cup HexLower \cup HexUpper

\* char::len_utf8: the bytes a character takes in a str
len_utf8(c) == IF c = "U+00E9" THEN 2 ELSE IF c = "U+FF11" THEN 3 ELSE 1

\* str::len: the length of a str in bytes
RECURSIVE str_len(_)
str_len(s) == IF s = <<>> THEN 0 ELSE len_utf8(Head(s)) + str_len(Tail(s))

TOKEN_LEN == 64

is_valid_token_format_ge(token) ==
    /\ str_len(token) >= TOKEN_LEN
    /\ \A i \in 1..Len(token) : is_ascii_hexdigit(token[i])

is_valid_token_format(token) ==
    /\ str_len(token) = TOKEN_LEN
    /\ \A i \in 1..Len(token) : is_ascii_hexdigit(token[i])

-----------------------------------------------------------------------------
(* URL text and url::Url::parse.  A URL text is a sequence of lexemes; the  *)
(* parser below follows the url crate for the shapes the inputs take:      *)
(* scheme ":" [slashes] [userinfo "@"] host [":" port] path ["?" query]    *)
(* ["#" fragment].                                                         *)

UrlDelims == {":", "/", "?", "#", "@", "=", "&"}

\* words that do not match the scheme grammar ALPHA *( ALPHA / DIGIT / "+" / "-" / "." )
NotSchemeWords == {"", "3000", "443", "*.hackerai.co", " localhost ", "x y"}
\* words with a code point a host may not hold
NotHostWords == {" localhost ", "x y"}

IsSchemeWord(w) == w \notin UrlDelims /\ w \notin NotSchemeWords
IsPortWord(w) == w \in {"3000", "443"}

\* str::to_ascii_lowercase on the words of the vocabulary
ascii_lower(w) ==
    CASE w = "HTTPS" -> "https"
      [] w = "HACKERAI.CO" -> "hackerai.co"
      [] w = "LocalHost" -> "localhost"
      [] OTHER -> w

SpecialSchemes == {"http", "https", "ws", "wss", "ftp"}

ParseErr == [ok |-> FALSE]

\* the first index of s holding a lexeme of set d, Len(s) + 1 when there is none
RECURSIVE FirstIn(_, _, _)
FirstIn(s, d, i) ==
    IF i > Len(s) THEN Len(s) + 1
    ELSE IF s[i] \in d THEN i ELSE FirstIn(s, d, i + 1)

\* the last index of s holding lexeme x, 0 when there is none
RECURSIVE LastOf(_, _, _)
LastOf(s, x, i) ==
    IF i = 0 THEN 0 ELSE IF s[i] = x THEN i ELSE LastOf(s, x, i - 1)

From(s, i) == SubSeq(s, i, Len(s))

\* leading "/" lexemes removed (special schemes accept any number of slashes)
RECURSIVE StripSlashes(_)
StripSlashes(s) == IF s # <<>> /\ Head(s) = "/" THEN StripSlashes(Tail(s)) ELSE s

UrlRec(scheme, host, port, rawPath, hasQuery, query, afterQuery) ==
    [ok |-> TRUE,
     scheme |-> scheme,
     host |-> host,
     port |-> port,
     path |-> IF rawPath = <<>> /\ scheme \in SpecialSchemes THEN <<"/">> ELSE rawPath,
     has_query |-> hasQuery,
     query |-> query,
     has_fragment |-> afterQuery # <<>>,
     fragment |-> IF afterQuery # <<>> THEN Tail(afterQuery) ELSE <<>>]

\* the query (from "?" to the first "#") and the fragment of what follows the path
ParseQuery(scheme, host, port, rawPath, afterPath) ==
    IF afterPath # <<>> /\ Head(afterPath) = "?"
    THEN UrlRec(scheme, host, port, rawPath, TRUE,
                SubSeq(afterPath, 2, FirstIn(afterPath, {"#"}, 1) - 1),
                From(afterPath, FirstIn(afterPath, {"#"}, 1)))
    ELSE UrlRec(scheme, host, port, rawPath, FALSE, <<>>, afterPath)

\* path (up to the first "?" or "#"), query and fragment of the text after the authority
ParseTail(scheme, host, port, tail) ==
    ParseQuery(scheme, host, port,
               SubSeq(tail, 1, FirstIn(tail, {"?", "#"}, 1) - 1),
               From(tail, FirstIn(tail, {"?", "#"}, 1)))

PortOk(afterHost) ==
    \/ afterHost = <<>>
    \/ afterHost = <<":">>
    \/ Len(afterHost) = 2 /\ afterHost[1] = ":" /\ IsPortWord(afterHost[2])

\* the port, None when there is none or it is the scheme's default
PortOf(scheme, afterHost) ==
    IF Len(afterHost) = 2 /\ ~(scheme = "https" /\ afterHost[2] = "443")
    THEN afterHost[2] ELSE None

\* host and port: hostport is the authority after its last "@"
ParseHost(scheme, auth, hostport, tail) ==
    IF hostport # <<>> /\ Head(hostport) # ":"
    THEN IF Head(hostport) \in NotHostWords \/ ~PortOk(Tail(hostport)) THEN ParseErr
         ELSE ParseTail(scheme,
                        IF scheme \in SpecialSchemes THEN ascii_lower(Head(hostport))
                        ELSE Head(hostport),
                        PortOf(scheme, Tail(hostport)), tail)
    ELSE IF scheme \in SpecialSchemes \/ auth # <<>> THEN ParseErr
    ELSE ParseTail(scheme, None, None, tail)

\* the authority (up to the first "/", "?" or "#") and what follows it
SplitAuthority(scheme, auth, tail) ==
    ParseHost(scheme, auth, From(auth, LastOf(auth, "@", Len(auth)) + 1), tail)

ParseAuthority(scheme, r) ==
    SplitAuthority(scheme, SubSeq(r, 1, FirstIn(r, {"/", "?", "#"}, 1) - 1),
                   From(r, FirstIn(r, {"/", "?", "#"}, 1)))

ParseScheme(scheme, rest) ==
    IF scheme \in SpecialSchemes THEN ParseAuthority(scheme, StripSlashes(rest))
    ELSE IF Len(rest) >= 2 /\ rest[1] = "/" /\ rest[2] = "/"
    THEN ParseAuthority(scheme, From(rest, 3))
    ELSE ParseTail(scheme, None, None, rest)

\* url::Url::parse
Url_parse(t) ==
    IF Len(t) < 2 \/ ~IsSchemeWord(t[1]) \/ t[2] # ":" THEN ParseErr
    ELSE ParseScheme(ascii_lower(t[1]), From(t, 3))

\* Url::host_str().unwrap_or("")
host_str_or_empty(parsed) == IF parsed.host = None THEN "" ELSE parsed.host

-----------------------------------------------------------------------------
(* The allow-list and the origin check.                                    *)

\* str::trim on the words of the vocabulary
trim(w) == IF w = " localhost " THEN "localhost" ELSE w

\* str::split(','): the entries between the commas, an empty entry for nothing
\* between two commas, before the first or after the last
RECURSIVE split_comma(_)
split_comma(s) ==
    LET c == FirstIn(s, {","}, 1)
        entry == IF c = 1 THEN "" ELSE s[1]
    IN  IF c > Len(s) THEN <<entry>> ELSE <<entry>> \o split_comma(From(s, c + 1))

DefaultAllowedHosts == <<"hackerai.co", "localhost">>

get_allowed_hosts ==
    IF ~env.set THEN DefaultAllowedHosts
    ELSE LET raw == split_comma(env.value) IN [i \in 1..Len(raw) |-> trim(raw[i])]

is_allowed_host(host, allowed_hosts) ==
    \E i \in 1..Len(allowed_hosts) : host = allowed_hosts[i]

is_valid_scheme_http_any(scheme, host) == scheme = "https" \/ scheme = "http"

is_valid_scheme(scheme, host) == scheme = "https" \/ (host = "localhost" /\ scheme = "http")

origin_ok(parsed) ==
    IF parsed.ok
    THEN /\ is_allowed_host(host_str_or_empty(parsed), get_allowed_hosts)
         /\ is_valid_scheme(parsed.scheme, host_str_or_empty(parsed))
    ELSE FALSE

validate_origin(origin) == origin_ok(Url_parse(origin))

-----------------------------------------------------------------------------
(* handle_auth_deep_link.  The deep link is a parsed url::Url: its scheme, *)
(* host and path as Url_parse gives them for the link's text up to the     *)
(* query, and its decoded query pairs (query_pairs) in order.              *)

AlnumChars == Digits \cup HexLower \cup HexUpper \cup {"g", "G"}

\* form_urlencoded::byte_serialize of one character's bytes
byte_serialize_char(c) ==
    CASE c \in AlnumChars \cup {"*", "-", ".", "_"} -> <<c>>
      [] c = " " -> <<"+">>
      [] c = "%" -> <<"%", "2", "5">>
      [] c = "U+00E9" -> <<"%", "C", "3", "%", "A", "9">>
      [] c = "U+FF11" -> <<"%", "E", "F", "%", "B", "C", "%", "9", "1">>
      [] OTHER -> <<"%", "?", "?">>

\* url::form_urlencoded::byte_serialize(token.as_bytes()).collect()
RECURSIVE byte_serialize(_)
byte_serialize(s) ==
    IF s = <<>> THEN <<>> ELSE byte_serialize_char(Head(s)) \o byte_serialize(Tail(s))

\* query_pairs().find(|(k, _)| k == key): the index of the last / first such pair, 0 for None
RECURSIVE query_find_last(_, _)
query_find_last(pairs, key) ==
    IF pairs = <<>> THEN 0
    ELSE IF pairs[Len(pairs)].k = key THEN Len(pairs)
    ELSE query_find_last(SubSeq(pairs, 1, Len(pairs) - 1), key)

RECURSIVE query_find_from(_, _, _)
query_find_from(pairs, key, i) ==
    IF i > Len(pairs) THEN 0
    ELSE IF pairs[i].k = key THEN i ELSE query_find_from(pairs, key, i + 1)

query_find(pairs, key) == query_find_from(pairs, key, 1)

\* a log record; `at` is the number of window.navigate calls made before it is written
LogRec(level, msg, at) == [level |-> level, msg |-> msg, data |-> <<>>, at |-> at]

PRODUCTION_ORIGIN == <<"https", ":", "/", "/", "hackerai.co">>

Production ==
    [origin |-> PRODUCTION_ORIGIN,
     log |-> <<LogRec("warn", "Deep link has missing or invalid origin, using production", 0)>>]

\* the origin parameter (pair i, 0 for none) if it validates, else production with a warning
origin_or_production_unchecked(pairs, i) ==
    IF i # 0 THEN [origin |-> pairs[i].v, log |-> <<>>] ELSE Production

origin_or_production(pairs, i) ==
    IF i # 0 /\ validate_origin(pairs[i].v)
    THEN [origin |-> pairs[i].v, log |-> <<>>]
    ELSE Production

resolve_origin(u) == origin_or_production(u.pairs, query_find(u.pairs, "origin"))

callback_url(origin, token) ==
    origin \o <<"/", "desktop-callback", "?", "token", "=">> \o byte_serialize(token)

error_url(origin) == origin \o <<"/", "login", "?", "error", "=", "navigation_failed">>

\* the record that shows the first 8 characters of the token
token_info(token) ==
    [level |-> "info", msg |-> "Navigating to desktop callback",
     data |-> SubSeq(token, 1, IF Len(token) < 8 THEN Len(token) ELSE 8), at |-> 0]

Nav(target, ok) == [target |-> target, ok |-> ok]

\* the fallback navigation to the error page after the callback navigation failed;
\* r2 is the result window.navigate gives (TRUE for Ok), which the code drops
fallback(cb, err, r2) ==
    IF Url_parse(err).ok THEN <<Nav(err, r2)>> ELSE <<>>

\* the navigation to the callback URL cb and, when it fails (r1 = FALSE), to the
\* error page err
navigate_to(cb, err, info, r1, r2) ==
    IF Url_parse(cb).ok
    THEN IF r1 THEN [navs |-> <<Nav(cb, TRUE)>>, log |-> <<info>>]
         ELSE [navs |-> <<Nav(cb, FALSE)>> \o fallback(cb, err, r2),
               log |-> <<info, LogRec("error", "Failed to navigate to callback URL", 1)>>]
    ELSE [navs |-> <<>>, log |-> <<info, LogRec("error", "Invalid callback URL format", 0)>>]

navigate(origin, token, r1, r2) ==
    navigate_to(callback_url(origin, token), error_url(origin), token_info(token), r1, r2)

Nothing == [navs |-> <<>>, log |-> <<>>]
OnlyLog(level, msg) == [navs |-> <<>>, log |-> <<LogRec(level, msg, 0)>>]

after(first_log, n) == [navs |-> n.navs, log |-> first_log \o n.log]

\* the branch with the main window: o is the resolved origin and its warning
with_window(o, token, r1, r2) == after(o.log, navigate(o.origin, token, r1, r2))

\* the branch for a link with a token parameter
with_token_unchecked(u, token, w, r1, r2) ==
    IF w THEN with_window(resolve_origin(u), token, r1, r2) ELSE Nothing

with_token(u, token, w, r1, r2) ==
    IF ~is_valid_token_format(token)
    THEN OnlyLog("error", "Invalid token format in deep link")
    ELSE IF w THEN with_window(resolve_origin(u), token, r1, r2)
    ELSE Nothing

\* the branch for a link without a token parameter
without_token(u) ==
    IF query_find(u.pairs, "error") # 0
    THEN OnlyLog("error", "Auth deep link received with error")
    ELSE OnlyLog("warn", "Auth deep link received without token")

is_auth_link_any(u) == TRUE

is_auth_link(u) == u.host = "auth" \/ u.path = <<"/", "auth">> \/ u.path = <<"auth">>

\* the match on the first token parameter (pair i, 0 for None)
match_token(u, i, w, r1, r2) ==
    IF i # 0 THEN with_token(u, u.pairs[i].v, w, r1, r2) ELSE without_token(u)

handle_auth_deep_link(u, w, r1, r2) ==
    IF u.scheme # "hackerai" THEN Nothing
    ELSE IF is_auth_link(u) THEN match_token(u, query_find(u.pairs, "token"), w, r1, r2)
    ELSE Nothing

-----------------------------------------------------------------------------
(* The throttle file: decimal text, to_string and parse::<u64>.            *)

UPDATE_CHECK_INTERVAL == 86400
POLL_INTERVAL == 3600

DigitSeq == <<"0", "1", "2", "3", "4", "5", "6", "7", "8", "9">>
DigitVal(c) == (CHOOSE i \in 1..10 : DigitSeq[i] = c) - 1

\* u64::to_string
RECURSIVE to_string(_)
to_string(n) ==
    IF n < 10 THEN <<DigitSeq[n + 1]>> ELSE to_string(n \div 10) \o <<DigitSeq[(n % 10) + 1]>>

Whitespace == {" ", "\n", "\t"}

\* str::trim
RECURSIVE trim_start(_)
trim_start(s) == IF s # <<>> /\ Head(s) \in Whitespace THEN trim_start(Tail(s)) ELSE s
RECURSIVE trim_end(_)
trim_end(s) ==
    IF s # <<>> /\ s[Len(s)] \in Whitespace THEN trim_end(SubSeq(s, 1, Len(s) - 1)) ELSE s
str_trim(s) == trim_end(trim_start(s))

RECURSIVE strip_zeros(_)
strip_zeros(s) == IF Len(s) > 1 /\ Head(s) = "0" THEN strip_zeros(Tail(s)) ELSE s

\* the decimal digits of u64::MAX, 18446744073709551615
U64_MAX_DIGITS ==
    <<"1", "8", "4", "4", "6", "7", "4", "4", "0", "7", "3", "7", "0", "9", "5", "5", "1", "6",
      "1", "5">>

\* a > b for digit sequences of the same length
RECURSIVE digits_gt(_, _)
digits_gt(a, b) ==
    IF a = <<>> THEN FALSE
    ELSE IF Head(a) # Head(b) THEN DigitVal(Head(a)) > DigitVal(Head(b))
    ELSE digits_gt(Tail(a), Tail(b))

\* the number a digit sequence without leading zeros stands for exceeds u64::MAX
overflows_u64(sig) ==
    Len(sig) > Len(U64_MAX_DIGITS)
        \/ (Len(sig) = Len(U64_MAX_DIGITS) /\ digits_gt(sig, U64_MAX_DIGITS))

RECURSIVE digits_value(_)
digits_value(s) ==
    IF s = <<>> THEN 0 ELSE 10 * digits_value(SubSeq(s, 1, Len(s) - 1)) + DigitVal(s[Len(s)])

ParseFail == [ok |-> FALSE, value |-> 0]

\* the digits after the optional sign
parse_digits(body) ==
    IF body = <<>> \/ \E i \in 1..Len(body) : body[i] \notin Digits THEN ParseFail
    ELSE IF overflows_u64(strip_zeros(body)) THEN ParseFail
    ELSE [ok |-> TRUE, value |-> digits_value(strip_zeros(body))]

\* str::parse::<u64>: an optional "+", then decimal digits, no overflow
parse_u64(s) == parse_digits(IF s # <<>> /\ Head(s) = "+" THEN Tail(s) ELSE s)

\* Result::unwrap_or(0)
unwrap_or_0(r) == IF r.ok THEN r.value ELSE 0

\* u64::saturating_sub
saturating_sub(a, b) == IF a >= b THEN a - b ELSE 0

\* fs::read_to_string gave Ok(content): the comparison of the Ok arm
is_due_hourly(t, content) ==
    saturating_sub(t, unwrap_or_0(parse_u64(str_trim(content)))) >= POLL_INTERVAL

is_due(t, content) ==
    saturating_sub(t, unwrap_or_0(parse_u64(str_trim(content)))) >= UPDATE_CHECK_INTERVAL

\* should_check_for_updates at wall-clock time t, with the app-data directory
\* resolvable or not (d) and the file f
should_check_for_updates_at(t, d, f) ==
    IF ~d THEN TRUE
    ELSE IF f.exists /\ f.readable THEN is_due(t, f.content)
    ELSE TRUE

-----------------------------------------------------------------------------
(* The background update task spawned in setup (lib.rs:270-284) and        *)
(* check_for_updates, one action per step between two awaits.              *)

NoSave == [called |-> FALSE, wrote |-> None, at |-> 0, text |-> <<>>]

ULog(level, msg) == [level |-> level, msg |-> msg]

\* what blocking_show returned for the dialog with this title
Answer(dialog, ok) == [dialog |-> dialog, ok |-> ok]

\* the result of fs::write: written, or File::create failed (the file is as it
\* was), or the write after the truncating create failed (the file is empty)
WriteOutcomes == {"ok", "create_failed", "write_failed"}

file_after_write(f, t, out) ==
    CASE out = "ok" -> [exists |-> TRUE, readable |-> (f.exists => f.readable),
                        content |-> to_string(t)]
      [] out = "write_failed" -> [exists |-> TRUE, readable |-> (f.exists => f.readable),
                                  content |-> <<>>]
      [] OTHER -> f

log_after_write(out) ==
    IF out = "ok" THEN <<>> ELSE <<ULog("warn", "Failed to save update check timestamp")>>

\* what check_for_updates writes and shows for a result that is no update:
\* in silent mode a log record, else a log record and a blocking dialog
report(silent, quiet, loud, dialog) ==
    IF silent THEN [log |-> <<quiet>>, dialogs |-> <<>>]
    ELSE [log |-> <<loud>>, dialogs |-> <<dialog>>]

updater_unavailable(silent) ==
    report(silent, ULog("warn", "Auto-update check failed to get updater"),
           ULog("error", "Failed to get updater"), "Update Error")

no_update(silent) ==
    report(silent, ULog("info", "No updates available (auto-check)"),
           ULog("info", "No updates available"), "No Updates")

check_failed_shown(silent) ==
    [log |-> <<ULog("warn", "Auto-update check failed")>>, dialogs |-> <<"Update Error">>]

check_failed(silent) ==
    report(silent, ULog("warn", "Auto-update check failed"),
           ULog("error", "Failed to check for updates"), "Update Error")

\* the background task calls check_for_updates(handle.clone(), true)
SILENT == TRUE

\* the background task is not part of the run
NoCheck == [any |-> FALSE, at |-> 0]
NoFile == [exists |-> FALSE, readable |-> FALSE, content |-> <<>>]
UpdIdle ==
    /\ pc = "off" /\ now = 0 /\ dir = FALSE /\ file = NoFile
    /\ ulog = <<>> /\ shown = <<>> /\ decided = "none" /\ lastSave = NoSave
    /\ checks = 0 /\ wakes = 0
    /\ answers = <<>> /\ lastCheck = NoCheck /\ writesOk = TRUE

-----------------------------------------------------------------------------
(* Inputs of the token check: n characters, all `base` except for `odd`    *)
(* at position pos (pos = 0: no odd character).                            *)

LenSlack == 2
TokenBases == {"a", "F", "7"}
OddChars == {"0", "f", "A", "g", "G", "-", "%", " ", "U+00E9", "U+FF11"}
TokenLens == {0, 1} \cup ((TOKEN_LEN - LenSlack)..(TOKEN_LEN + LenSlack))

Tok(n, base, pos, odd) == [i \in 1..n |-> IF i = pos THEN odd ELSE base]

TokenInputs ==
    {Tok(n, b, p, c) : n \in TokenLens, b \in TokenBases,
                       p \in {0, 1, TOKEN_LEN \div 2, TOKEN_LEN}, c \in OddChars}

\* no deep link handled yet
NoUrl == [scheme |-> "", host |-> None, path |-> <<>>, pairs |-> <<>>]
LinkIdle == url = NoUrl /\ window = FALSE /\ navs = <<>> /\ log = <<>>

\* no pure-function call under evaluation
NoCall == [fn |-> None, arg |-> <<>>, parts |-> None, done |-> FALSE, ret |-> FALSE]

EnvUnset == [set |-> FALSE, value |-> <<>>]

InitToken ==
    /\ call \in {[NoCall EXCEPT !.fn = "is_valid_token_format", !.arg = t] : t \in TokenInputs}
    /\ env = EnvUnset
    /\ LinkIdle
    /\ UpdIdle

CallToken ==
    /\ call.fn = "is_valid_token_format" /\ ~call.done
    /\ call' = [call EXCEPT !.done = TRUE, !.ret = is_valid_token_format(call.arg)]
    /\ UNCHANGED <<env, linkVars, updVars>>

NextToken == CallToken

SpecToken == InitToken /\ [][NextToken]_vars

-----------------------------------------------------------------------------
(* Inputs of the origin check: texts put together from a scheme, slashes,  *)
(* userinfo, a host, a port and a suffix, and a few texts with no scheme;  *)
(* under the unset variable and under several overrides.                   *)

EnvValues ==
    {EnvUnset,
     [set |-> TRUE, value |-> <<>>],
     [set |-> TRUE, value |-> <<"staging.hackerai.co">>],
     [set |-> TRUE, value |-> <<"hackerai.co", ",", " localhost ">>],
     [set |-> TRUE, value |-> <<"*.hackerai.co", ",", ",", "evil.com">>]}

OriginParts ==
    [scheme : {"https", "http", "HTTPS", "javascript", ""},
     slashes : {<<"/", "/">>, <<>>},
     userinfo : {<<>>, <<"hackerai.co", "@">>},
     host : {"hackerai.co", "localhost", "LocalHost", "evil.com", "staging.hackerai.co",
             "sub.hackerai.co"},
     port : {<<>>, <<":", "3000">>},
     suffix : {<<>>, <<"/">>, <<"/", "evil">>, <<"?", "x", "=", "y">>, <<"#", "f">>}]

OriginText(p) ==
    (IF p.scheme = "" THEN <<>> ELSE <<p.scheme, ":">>)
        \o p.slashes \o p.userinfo \o <<p.host>> \o p.port \o p.suffix

InitOrigin ==
    /\ call \in {[NoCall EXCEPT !.fn = "validate_origin", !.arg = OriginText(p), !.parts = p]
                 : p \in OriginParts}
    /\ env \in EnvValues
    /\ LinkIdle
    /\ UpdIdle

CallOrigin ==
    /\ call.fn = "validate_origin" /\ ~call.done
    /\ call' = [call EXCEPT !.done = TRUE, !.ret = validate_origin(call.arg)]
    /\ UNCHANGED <<env, linkVars, updVars>>

NextOrigin == CallOrigin

SpecOrigin == InitOrigin /\ [][NextOrigin]_vars

-----------------------------------------------------------------------------
(* Deep links delivered to the handler (on_open_url, and the single-       *)
(* instance callback for links passed as arguments): a link text up to the *)
(* query, and up to MaxPairs query pairs.                                  *)

MaxPairs == 3

LinkPrefixes ==
    {<<"hackerai", ":", "/", "/", "auth">>,
     <<"hackerai", ":", "/", "/", "/", "auth">>,
     <<"hackerai", ":", "auth">>,
     <<"hackerai", ":", "/", "/", "other">>,
     <<"https", ":", "/", "/", "auth", "/", "auth">>}

LinkTokens ==
    {Tok(64, "a", 32, "A"), Tok(64, "a", 64, "%")}

LinkOrigins ==
    {<<"https", ":", "/", "/", "hackerai.co">>,
     <<"http", ":", "/", "/", "localhost", ":", "3000">>,
     <<"https", ":", "/", "/", "evil.com">>,
     <<"https", ":", "/", "/", "staging.hackerai.co">>,
     <<"https", ":", "/", "/", "hackerai.co", "/", "evil">>}

PairValues ==
    {[k |-> "token", v |-> t] : t \in LinkTokens}
        \cup {[k |-> "origin", v |-> o] : o \in LinkOrigins}
        \cup {[k |-> "error", v |-> <<"access_denied">>]}

Queries == UNION {[1..n -> PairValues] : n \in 0..MaxPairs}

AsDeepLink(u, pairs) ==
    [scheme |-> u.scheme, host |-> u.host, path |-> u.path, pairs |-> pairs]

DeepLink(prefix, pairs) == AsDeepLink(Url_parse(prefix), pairs)

DeepLinks == {DeepLink(p, q) : p \in LinkPrefixes, q \in Queries}

LinkEnvValues ==
    {EnvUnset,
     [set |-> TRUE, value |-> <<"staging.hackerai.co">>],
     [set |-> TRUE, value |-> <<"hackerai.co", ",", " localhost ">>]}

Init ==
    /\ call = NoCall
    /\ env \in LinkEnvValues
    /\ LinkIdle
    /\ UpdIdle

\* what the framework answers during one invocation: there is no main window, or
\* there is one and window.navigate gives Ok, or Err and then Ok, or Err twice
Outcomes == {"no_window", "ok", "err_ok", "err_err"}

\* one invocation of handle_auth_deep_link on a link u
on_open_url ==
    /\ url = NoUrl
    /\ \E u \in DeepLinks, o \in Outcomes :
        /\ url' = u
        /\ window' = (o # "no_window")
        /\ \E res \in {handle_auth_deep_link(u, o # "no_window", o = "ok", o = "err_ok")} :
              navs' = res.navs /\ log' = res.log
    /\ UNCHANGED <<call, env, updVars>>

\* the handler has returned: the records of the invocation are dropped
handler_return ==
    /\ url # NoUrl
    /\ url' = NoUrl /\ window' = FALSE /\ navs' = <<>> /\ log' = <<>>
    /\ UNCHANGED <<call, env, updVars>>

Next == on_open_url \/ handler_return

Spec == Init /\ [][Next]_vars

-----------------------------------------------------------------------------
(* Runs of the background update task: the clock at launch, the throttle   *)
(* file left by earlier runs, and up to MaxWakes wakes from the sleep.     *)

MaxWakes == 3
StartTimes == {0, 82800, 100000}
SleepDurations == {POLL_INTERVAL, POLL_INTERVAL + 1}
CheckDurations == {0, UPDATE_CHECK_INTERVAL - POLL_INTERVAL - 1}

Chars(n) == to_string(n)
FileWith(content) == [exists |-> TRUE, readable |-> TRUE, content |-> content]
InitFiles ==
    {NoFile,
     [exists |-> TRUE, readable |-> FALSE, content |-> Chars(1)],
     FileWith(<<>>),
     FileWith(<<"a", "b", "c">>),
     FileWith(<<"-", "5">>),
     FileWith(<<"1", "2", "x">>),
     FileWith(<<"1", "8", "4", "4", "6", "7", "4", "4", "0", "7", "3", "7", "0", "9", "5", "5",
                "1", "6", "1", "6">>),
     FileWith(<<" ", "+", "0", "0", "1", "\n">>),
     FileWith(Chars(0)),
     FileWith(Chars(200000) \o <<"\n">>)}

InitUpd ==
    /\ call = NoCall /\ env = EnvUnset /\ LinkIdle
    /\ pc = "launch"
    /\ now \in StartTimes
    /\ dir \in BOOLEAN
    /\ file \in InitFiles
    /\ ulog = <<>> /\ shown = <<>>
    /\ decided = "none"
    /\ lastSave = NoSave
    /\ checks = 0
    /\ wakes = 0
    /\ answers = <<>>
    /\ lastCheck = NoCheck
    /\ writesOk = TRUE

otherVars == <<call, env, linkVars>>

\* lib.rs:271
Launch ==
    /\ pc = "launch"
    /\ pc' = "save"
    /\ ulog' = <<ULog("info", "Running update check on launch")>>
    /\ decided' = "startup"
    /\ UNCHANGED <<now, dir, file, shown, lastSave, checks, wakes, answers, lastCheck, writesOk,
                   otherVars>>

\* save_update_check_timestamp, and the step to the call of check_for_updates
Save ==
    /\ pc = "save"
    /\ pc' = "check"
    /\ IF dir
       THEN \E out \in WriteOutcomes :
               /\ file' = file_after_write(file, now, out)
               /\ ulog' = ulog \o log_after_write(out)
               /\ lastSave' = [called |-> TRUE, wrote |-> out, at |-> now, text |-> to_string(now)]
               /\ writesOk' = (writesOk /\ out = "ok")
       ELSE /\ lastSave' = [called |-> TRUE, wrote |-> "no_dir", at |-> now, text |-> <<>>]
            /\ writesOk' = FALSE
            /\ UNCHANGED <<file, ulog>>
    /\ UNCHANGED <<now, dir, shown, decided, checks, wakes, answers, lastCheck, otherVars>>

\* check_for_updates: app.updater()
CheckBegin ==
    /\ pc = "check"
    /\ \E ok \in BOOLEAN :
          IF ok THEN pc' = "updater_check" /\ UNCHANGED <<ulog, shown>>
          ELSE /\ pc' = "sleep"
               /\ ulog' = ulog \o updater_unavailable(SILENT).log
               /\ shown' = shown \o updater_unavailable(SILENT).dialogs
    /\ checks' = checks + 1
    /\ lastCheck' = [any |-> TRUE, at |-> now]
    /\ UNCHANGED <<now, dir, file, decided, lastSave, wakes, answers, writesOk, otherVars>>

\* updater.check().await, which takes time d, and the arm its result selects
UpdaterCheck ==
    /\ pc = "updater_check"
    /\ \E d \in CheckDurations : now' = now + d
    /\ \E res \in {"update", "none", "err"} :
          CASE res = "update" ->
                  /\ pc' = "ask_install"
                  /\ ulog' = ulog \o <<ULog("info", "Update available")>>
                  /\ shown' = shown \o <<"Update Available">>
            [] res = "none" ->
                  /\ pc' = "sleep"
                  /\ ulog' = ulog \o no_update(SILENT).log
                  /\ shown' = shown \o no_update(SILENT).dialogs
            [] OTHER ->
                  /\ pc' = "sleep"
                  /\ ulog' = ulog \o check_failed(SILENT).log
                  /\ shown' = shown \o check_failed(SILENT).dialogs
    /\ UNCHANGED <<dir, file, decided, lastSave, checks, wakes, answers, lastCheck, writesOk,
                   otherVars>>

\* the user answers the "Update Available" dialog
AnswerInstall ==
    /\ pc = "ask_install"
    /\ \E should_update \in BOOLEAN :
          /\ answers' = Append(answers, Answer("Update Available", should_update))
          /\ IF should_update
             THEN pc' = "install" /\ ulog' = ulog \o <<ULog("info", "User accepted update")>>
             ELSE pc' = "sleep" /\ UNCHANGED ulog
    /\ UNCHANGED <<now, dir, file, shown, decided, lastSave, checks, wakes, lastCheck, writesOk,
                   otherVars>>

\* update.download_and_install(..).await
Install ==
    /\ pc = "install"
    /\ \E ok \in BOOLEAN :
          IF ok
          THEN /\ pc' = "ask_restart"
               /\ ulog' = ulog \o <<ULog("info", "Update installed successfully")>>
               /\ shown' = shown \o <<"Update Complete">>
          ELSE /\ pc' = "install_error"
               /\ ulog' = ulog \o <<ULog("error", "Failed to install update")>>
               /\ shown' = shown \o <<"Update Error">>
    /\ UNCHANGED <<now, dir, file, decided, lastSave, checks, wakes, answers, lastCheck,
                   writesOk, otherVars>>

\* the user closes the "Update Error" dialog
DismissInstallError ==
    /\ pc = "install_error"
    /\ pc' = "sleep"
    /\ \E closed \in BOOLEAN : answers' = Append(answers, Answer("Update Error", closed))
    /\ UNCHANGED <<now, dir, file, ulog, shown, decided, lastSave, checks, wakes, lastCheck,
                   writesOk, otherVars>>

AnswerRestart_unasked ==
    /\ pc = "ask_restart"
    /\ \E restart_now \in BOOLEAN :
          answers' = Append(answers, Answer("Update Complete", restart_now))
    /\ pc' = "restarted"
    /\ UNCHANGED <<now, dir, file, ulog, shown, decided, lastSave, checks, wakes, lastCheck,
                   writesOk, otherVars>>

\* the user answers the "Update Complete" dialog; app.restart() ends the process
AnswerRestart ==
    /\ pc = "ask_restart"
    /\ \E restart_now \in BOOLEAN :
          /\ answers' = Append(answers, Answer("Update Complete", restart_now))
          /\ pc' = IF restart_now THEN "restarted" ELSE "sleep"
    /\ UNCHANGED <<now, dir, file, ulog, shown, decided, lastSave, checks, wakes, lastCheck,
                   writesOk, otherVars>>

\* tokio::time::sleep(1 hour).await: the task wakes d seconds later
Sleep ==
    /\ pc = "sleep"
    /\ wakes < MaxWakes
    /\ \E d \in SleepDurations : now' = now + d
    /\ pc' = "wake"
    /\ wakes' = wakes + 1
    /\ ulog' = <<>> /\ shown' = <<>>
    /\ decided' = "none"
    /\ lastSave' = NoSave
    /\ checks' = 0
    /\ answers' = <<>>
    /\ UNCHANGED <<dir, file, lastCheck, writesOk, otherVars>>

\* lib.rs:278-279
Wake_always_due ==
    /\ pc = "wake"
    /\ pc' = "save"
    /\ decided' = (IF should_check_for_updates_at(now, dir, file) THEN "due" ELSE "not_due")
    /\ ulog' = <<ULog("info", "Running scheduled update check (24h interval)")>>
    /\ UNCHANGED <<now, dir, file, shown, lastSave, checks, wakes, answers, lastCheck, writesOk,
                   otherVars>>

Wake ==
    /\ pc = "wake"
    /\ IF should_check_for_updates_at(now, dir, file)
       THEN /\ pc' = "save"
            /\ decided' = "due"
            /\ ulog' = <<ULog("info", "Running scheduled update check (24h interval)")>>
       ELSE /\ pc' = "sleep"
            /\ decided' = "not_due"
            /\ UNCHANGED ulog
    /\ UNCHANGED <<now, dir, file, shown, lastSave, checks, wakes, answers, lastCheck, writesOk,
                   otherVars>>

NextUpd ==
    \/ Launch
    \/ Save
    \/ CheckBegin
    \/ UpdaterCheck
    \/ AnswerInstall
    \/ Install
    \/ DismissInstallError
    \/ AnswerRestart
    \/ Sleep
    \/ Wake

SpecUpd == InitUpd /\ [][NextUpd]_vars

\* The steps the task takes by itself: the runtime polls the spawned future,
\* the timer fires, and the calls to the update service return.
TaskFairness ==
    /\ WF_vars(Launch)
    /\ WF_vars(Save)
    /\ WF_vars(CheckBegin)
    /\ WF_vars(UpdaterCheck)
    /\ WF_vars(Install)
    /\ WF_vars(Sleep)
    /\ WF_vars(Wake)

\* blocking_show returns when the user answers the dialog
UserFairness ==
    /\ WF_vars(AnswerInstall)
    /\ WF_vars(DismissInstallError)
    /\ WF_vars(AnswerRestart)

\* the task under fair scheduling; the user may leave a dialog unanswered
SpecUpdLive == SpecUpd /\ TaskFairness

\* the task under fair scheduling, with a user who answers every dialog
SpecUpdAnswered == SpecUpd /\ TaskFairness /\ UserFairness

-----------------------------------------------------------------------------
(* What the claims on the handler read off the state.                      *)

Handled == url # NoUrl

Returned(fn) == call.fn = fn /\ call.done

AllHex(s) == \A i \in 1..Len(s) : s[i] \in Digits \cup HexLower \cup HexUpper

\* the first query pair of the link with key k (0 when there is none), and its value
FirstKey(k) ==
    IF \E i \in 1..Len(url.pairs) : url.pairs[i].k = k
    THEN CHOOSE i \in 1..Len(url.pairs) :
            url.pairs[i].k = k /\ \A j \in 1..(i - 1) : url.pairs[j].k # k
    ELSE 0
HasKey(k) == FirstKey(k) # 0
Value(k) == url.pairs[FirstKey(k)].v

ValidToken(t) == Len(t) = 64 /\ AllHex(t)

IsAuthLink == url.host = "auth" \/ url.path = <<"/", "auth">> \/ url.path = <<"auth">>

CallbackSuffix == <<"/", "desktop-callback", "?", "token", "=">>
ErrorSuffix == <<"/", "login", "?", "error", "=", "navigation_failed">>

\* a target of the form origin \o CallbackSuffix \o token: its origin and its token
IsCallback(target) == \E i \in 1..Len(target) : target[i] = "desktop-callback"
CallbackAt(target) == CHOOSE i \in 1..Len(target) : target[i] = "desktop-callback"
CallbackOrigin(target) == SubSeq(target, 1, CallbackAt(target) - 2)
CallbackToken(target) == From(target, CallbackAt(target) + 4)

\* a target of the form origin \o ErrorSuffix: its origin
IsErrorPage(target) ==
    Len(target) >= Len(ErrorSuffix)
        /\ From(target, Len(target) - Len(ErrorSuffix) + 1) = ErrorSuffix
ErrorOrigin(target) == SubSeq(target, 1, Len(target) - Len(ErrorSuffix))

TargetOrigin(target) ==
    IF IsCallback(target) THEN CallbackOrigin(target) ELSE ErrorOrigin(target)

Logged(level, msg) == \E i \in 1..Len(log) : log[i].level = level /\ log[i].msg = msg

-----------------------------------------------------------------------------
(* C1: the view is navigated to a desktop-callback URL only with a token   *)
(* for which the format check holds, and the token in the callback URL is  *)
(* the value that was checked; a token parameter that fails the check      *)
(* means no navigation at all in that invocation.                          *)

C1_TokenGate ==
    /\ \A i \in 1..Len(navs) :
          IsCallback(navs[i].target) =>
              /\ HasKey("token")
              /\ ValidToken(Value("token"))
              /\ CallbackToken(navs[i].target) = Value("token")
    /\ (Handled /\ HasKey("token") /\ ~ValidToken(Value("token"))) => navs = <<>>

\* a link whose first token is valid was navigated to the callback URL although a
\* malformed token parameter follows it
C1_Witness ==
    /\ Len(url.pairs) = 2
    /\ url.pairs[1] = [k |-> "token", v |-> Tok(64, "a", 32, "A")]
    /\ url.pairs[2] = [k |-> "token", v |-> Tok(64, "a", 64, "%")]
    /\ Len(navs) = 1 /\ IsCallback(navs[1].target) /\ navs[1].ok

-----------------------------------------------------------------------------
(* C2: under every allow-list configuration, every origin the handler      *)
(* builds a navigation target on (callback URL, error page) passes         *)
(* validate_origin under that configuration, the production fallback       *)
(* included.                                                               *)

C2_EveryOriginValidated ==
    \A i \in 1..Len(navs) : validate_origin(TargetOrigin(navs[i].target))

\* the same under the built-in allow-list alone
C2_DefaultListOriginValidated ==
    ~env.set => \A i \in 1..Len(navs) : validate_origin(TargetOrigin(navs[i].target))

-----------------------------------------------------------------------------
(* C3: is_valid_token_format returns true for exactly the strings of 64    *)
(* characters that are all ASCII hex digits (either case), and false for   *)
(* every other length and for every string with a non-hex character.       *)

C3_TokenFormat ==
    Returned("is_valid_token_format") =>
        /\ (Len(call.arg) = 64 /\ AllHex(call.arg)) => call.ret = TRUE
        /\ Len(call.arg) # 64 => call.ret = FALSE
        /\ ~AllHex(call.arg) => call.ret = FALSE

\* a mixed-case string of 64 hex digits was accepted
C3_Witness ==
    /\ Returned("is_valid_token_format")
    /\ call.arg = Tok(64, "a", 32, "A")
    /\ call.ret = TRUE

\* a string of 64 bytes but 63 characters (one of them two bytes wide) was rejected
C3_WitnessWide ==
    /\ Returned("is_valid_token_format")
    /\ call.arg = Tok(63, "a", 1, "U+00E9")
    /\ call.ret = FALSE

-----------------------------------------------------------------------------
(* C4: validate_origin(o) is true exactly when o is an absolute URL whose  *)
(* host equals an entry of the current allow-list and whose scheme is      *)
(* https, or http with the host localhost; an origin whose host is not in  *)
(* the allow-list is rejected whatever its scheme; under the default list  *)
(* http://hackerai.co is rejected and http://localhost accepted.           *)

\* the allow-list as the configuration states it
AllowSet ==
    IF ~env.set THEN {"hackerai.co", "localhost"}
    ELSE {trim(e) : e \in {env.value[i] : i \in 1..Len(env.value)} \ {","}}
         \cup (IF \/ env.value = <<>>
                   \/ \E i \in 1..Len(env.value) :
                        /\ env.value[i] = ","
                        /\ i = 1 \/ i = Len(env.value) \/ env.value[i + 1] = ","
                THEN {""} ELSE {})

\* scheme and host of an input, read off the parts it was put together from
PartsScheme(p) == IF p.scheme = "HTTPS" THEN "https" ELSE p.scheme
PartsHost(p) ==
    IF PartsScheme(p) \in {"http", "https"}
    THEN (IF p.host = "LocalHost" THEN "localhost" ELSE p.host)
    ELSE IF p.slashes # <<>> THEN p.host ELSE ""

C4_ValidateOrigin ==
    Returned("validate_origin") =>
        LET p == call.parts IN
        /\ call.ret = (/\ p.scheme # ""
                       /\ PartsHost(p) \in AllowSet
                       /\ \/ PartsScheme(p) = "https"
                          \/ PartsHost(p) = "localhost" /\ PartsScheme(p) = "http")
        /\ PartsHost(p) \notin AllowSet => call.ret = FALSE
        /\ (~env.set /\ call.arg = <<"http", ":", "/", "/", "hackerai.co">>) => call.ret = FALSE
        /\ (~env.set /\ call.arg = <<"http", ":", "/", "/", "localhost">>) => call.ret = TRUE
        /\ (~env.set /\ call.arg = <<"https", ":", "/", "/", "hackerai.co">>) => call.ret = TRUE
        /\ (~env.set /\ call.arg = <<"https", ":", "/", "/", "evil.com">>) => call.ret = FALSE

\* http://localhost was accepted under the default allow-list
C4_Witness ==
    /\ Returned("validate_origin")
    /\ ~env.set
    /\ call.arg = <<"http", ":", "/", "/", "localhost">>
    /\ call.ret = TRUE

\* an override entry was trimmed and matched
C4_WitnessOverride ==
    /\ Returned("validate_origin")
    /\ env.value = <<"hackerai.co", ",", " localhost ">>
    /\ call.arg = <<"http", ":", "/", "/", "localhost", ":", "3000">>
    /\ call.ret = TRUE

-----------------------------------------------------------------------------
(* C5: the handler navigates only for a hackerai link that is an auth link *)
(* and has a token parameter; a link of another scheme is a no-op; an auth *)
(* link without a token parameter never navigates and writes one log       *)
(* record: an error if there is an error parameter, else a warning.        *)

C5_NavigationPreconditions ==
    Handled =>
        /\ navs # <<>> => (url.scheme = "hackerai" /\ IsAuthLink /\ HasKey("token"))
        /\ url.scheme # "hackerai" => (navs = <<>> /\ log = <<>>)
        /\ (url.scheme = "hackerai" /\ IsAuthLink /\ ~HasKey("token")) =>
              /\ navs = <<>>
              /\ Len(log) = 1
              /\ log[1].level = (IF HasKey("error") THEN "error" ELSE "warn")

\* an auth link with an error parameter and no token was only logged, as an error
C5_Witness ==
    /\ url.scheme = "hackerai" /\ url.host = "auth"
    /\ url.pairs = <<[k |-> "error", v |-> <<"access_denied">>]>>
    /\ window
    /\ navs = <<>>
    /\ Len(log) = 1 /\ log[1].level = "error"

-----------------------------------------------------------------------------
(* C6: for an auth link with a valid token and the main window present,    *)
(* the first navigation target is origin/desktop-callback?token=token,     *)
(* where origin is the first origin parameter if it passes validate_origin *)
(* and https://hackerai.co otherwise, in which case a warning is logged.   *)

OriginAccepted == HasKey("origin") /\ validate_origin(Value("origin"))

ProductionWarning ==
    Logged("warn", "Deep link has missing or invalid origin, using production")

C6_CallbackTarget ==
    (Handled /\ url.scheme = "hackerai" /\ IsAuthLink /\ window
        /\ HasKey("token") /\ ValidToken(Value("token"))) =>
        /\ navs # <<>>
        /\ navs[1].target =
              (IF OriginAccepted THEN Value("origin")
               ELSE <<"https", ":", "/", "/", "hackerai.co">>)
                  \o CallbackSuffix \o Value("token")
        /\ ProductionWarning = ~OriginAccepted

\* of two origin parameters the first, an accepted one, was used
C6_Witness ==
    /\ url.host = "auth"
    /\ Len(url.pairs) = 3
    /\ url.pairs[1] = [k |-> "origin", v |-> <<"http", ":", "/", "/", "localhost", ":", "3000">>]
    /\ url.pairs[2].k = "token" /\ ValidToken(url.pairs[2].v)
    /\ url.pairs[3] = [k |-> "origin", v |-> <<"https", ":", "/", "/", "hackerai.co">>]
    /\ navs # <<>>
    /\ CallbackOrigin(navs[1].target) = <<"http", ":", "/", "/", "localhost", ":", "3000">>

\* no origin parameter: production was used and the warning logged
C6_WitnessFallback ==
    /\ url.host = "auth" /\ ~HasKey("origin")
    /\ navs # <<>>
    /\ CallbackOrigin(navs[1].target) = <<"https", ":", "/", "/", "hackerai.co">>
    /\ ProductionWarning

-----------------------------------------------------------------------------
(* C7: an origin parameter that does not pass validate_origin makes the    *)
(* handler abort: no navigation in that invocation, only a log record.     *)

OriginRejected == HasKey("origin") /\ ~validate_origin(Value("origin"))

C7_RejectedOriginAborts ==
    (Handled /\ url.scheme = "hackerai" /\ IsAuthLink /\ OriginRejected) => navs = <<>>

(* C7 as amended: a rejected origin parameter does not stop the handler;   *)
(* it logs the warning and builds every navigation target of the           *)
(* invocation on https://hackerai.co instead of the parameter's value, and *)
(* (valid token, main window present) it does navigate.                    *)
C7_RejectedOriginReplaced ==
    (Handled /\ url.scheme = "hackerai" /\ IsAuthLink /\ OriginRejected) =>
        /\ \A i \in 1..Len(navs) :
              TargetOrigin(navs[i].target) = <<"https", ":", "/", "/", "hackerai.co">>
        /\ navs # <<>> => ProductionWarning
        /\ (window /\ HasKey("token") /\ ValidToken(Value("token"))) => navs # <<>>

\* a link with the origin https://evil.com was navigated to the production callback
C7_Witness ==
    /\ url.host = "auth"
    /\ HasKey("origin") /\ Value("origin") = <<"https", ":", "/", "/", "evil.com">>
    /\ navs # <<>> /\ navs[1].ok
    /\ CallbackOrigin(navs[1].target) = <<"https", ":", "/", "/", "hackerai.co">>
    /\ ProductionWarning

-----------------------------------------------------------------------------
(* C8: within one invocation the fallback navigation to                    *)
(* origin/login?error=navigation_failed is attempted exactly when the      *)
(* callback navigation was attempted and failed, on the same origin, at    *)
(* most once and with nothing navigated after it; and when the fallback    *)
(* fails too, that failure is logged.                                      *)

C8_FallbackShape ==
    /\ Len(navs) <= 2
    /\ navs # <<>> => IsCallback(navs[1].target)
    /\ (Len(navs) = 2) = (navs # <<>> /\ ~navs[1].ok)
    /\ Len(navs) = 2 =>
          navs[2].target = CallbackOrigin(navs[1].target) \o ErrorSuffix

C8_FallbackFailureLogged ==
    (Len(navs) = 2 /\ ~navs[2].ok) =>
        \E i \in 1..Len(log) : log[i].at = 2 /\ log[i].level \in {"error", "warn"}

C8_OneFallbackLogged == C8_FallbackShape /\ C8_FallbackFailureLogged

\* both navigations failed
C8_BothFailed == Len(navs) = 2 /\ ~navs[1].ok /\ ~navs[2].ok

-----------------------------------------------------------------------------
(* What the claims on the update task read off the state.                  *)

\* the task has just woken and called should_check_for_updates: the clock and
\* the file are those the call saw, `decided` is what it returned
AfterWake == (decided = "due" /\ pc = "save") \/ (decided = "not_due" /\ pc = "sleep")

\* the file can be read and its text is an unsigned decimal number
FileParses == file.exists /\ file.readable /\ parse_u64(str_trim(file.content)).ok

\* the persisted timestamp
Persisted == parse_u64(str_trim(file.content)).value

\* the persisted timestamp is 86400 seconds or more before the clock
DayOrMoreAgo == Persisted + UPDATE_CHECK_INTERVAL <= now

\* C9, the part on a timestamp that parses: true when it is a day or more
\* before the clock, false when it is less (a timestamp after the clock
\* included).
C9_ParsedTimestampDecision ==
    (AfterWake /\ dir /\ FileParses) => (decided = "due" <=> DayOrMoreAgo)

\* C9, the fail-open part: true whenever the directory does not resolve or
\* the file is absent, unreadable or not an unsigned decimal number.
C9_FailOpen ==
    (AfterWake /\ (~dir \/ ~FileParses)) => decided = "due"

\* C9: for every clock value and every file content should_check_for_updates
\* returns true when the persisted timestamp is 86400 seconds or more before
\* the clock, false when it is less than that before the clock (a timestamp
\* after the clock included), and true whenever the file is absent,
\* unreadable or not an unsigned decimal number, or the app-data directory
\* does not resolve.
C9_ThrottleDecision == C9_ParsedTimestampDecision /\ C9_FailOpen

\* C9 with the clock a day or more after the epoch: there a file that does
\* not parse is read as timestamp 0, which is a day or more before the clock.
C9_ThrottleDecisionPastFirstDay ==
    now >= UPDATE_CHECK_INTERVAL => C9_ThrottleDecision

\* a wake at which the file is there but is no number, in the first day
C9_UnparsedInFirstDay ==
    AfterWake /\ dir /\ file.exists /\ file.readable /\ ~FileParses
        /\ now < UPDATE_CHECK_INTERVAL

\* a wake exactly 86400 seconds after the persisted timestamp
C9_ExactlyADay == AfterWake /\ dir /\ FileParses /\ now = Persisted + UPDATE_CHECK_INTERVAL

\* a wake one second short of that
C9_OneSecondShort ==
    AfterWake /\ dir /\ FileParses /\ now + 1 = Persisted + UPDATE_CHECK_INTERVAL

\* C10, the states: at the call of check_for_updates the timestamp was saved in
\* this cycle at the current clock value (with the directory resolved, a
\* write of the clock's decimal text was issued; where it succeeded the file
\* holds that text) and no check ran since; a cycle has at most one check and
\* none without the save; a save or a check belongs to the launch or to a
\* wake that was due; a wake that was not due leaves the task asleep with
\* neither.
C10_SavedAtCheck ==
    /\ pc = "check" =>
          /\ lastSave.called /\ lastSave.at = now /\ checks = 0
          /\ dir => (lastSave.wrote \in WriteOutcomes /\ lastSave.text = to_string(now))
          /\ lastSave.wrote = "ok" => file.content = to_string(now)
    /\ checks > 0 => (checks = 1 /\ lastSave.called)
    /\ (lastSave.called \/ checks > 0 \/ pc = "save") => decided \in {"startup", "due"}
    /\ decided = "startup" <=> (wakes = 0 /\ pc # "launch")
    /\ decided = "not_due" => (pc = "sleep" /\ ~lastSave.called /\ checks = 0)

\* C10, the steps: a check starts only at the call that follows the save; the
\* file is written only by the save; the task gets to the save only from the
\* launch or from a wake at which should_check_for_updates is true; from any
\* other wake it goes back to sleep and leaves the file as it is.
C10_Step ==
    /\ checks' > checks => (pc = "check" /\ checks' = checks + 1)
    /\ file' # file => (pc = "save" /\ lastSave'.called)
    /\ (pc # "save" /\ pc' = "save") =>
          (pc = "launch" \/ (pc = "wake" /\ should_check_for_updates_at(now, dir, file)))
    /\ (pc = "wake" /\ pc' # "wake") =>
          IF should_check_for_updates_at(now, dir, file)
          THEN pc' = "save"
          ELSE pc' = "sleep" /\ file' = file /\ checks' = 0 /\ ~lastSave'.called

\* C10: in the background task every update check, the one at launch and each
\* scheduled one, comes directly after an attempt in the same cycle to
\* overwrite the timestamp file with the current time, with no other check in
\* between; after launch a check starts only directly after a wake from the
\* sleep at which should_check_for_updates returned true, and otherwise the
\* task goes back to sleep without writing the file or checking.
C10_SaveThenCheck == []C10_SavedAtCheck /\ [][C10_Step]_vars

\* a scheduled check, started after a wake that was due, its timestamp written
C10_Witness == decided = "due" /\ wakes > 0 /\ checks = 1 /\ lastSave.wrote = "ok"

\* a wake that was not due
C10_WitnessNotDue == decided = "not_due" /\ wakes > 0

\* a check with the directory unresolved: the save was called and wrote nothing
C10_WitnessNoDir == checks = 1 /\ ~dir /\ lastSave.called

-----------------------------------------------------------------------------
(* What the claims on check_for_updates read off the state.                *)

HasULog(level, msg) == \E i \in 1..Len(ulog) : ulog[i] = ULog(level, msg)
Shown(dialog) == \E i \in 1..Len(shown) : shown[i] = dialog

\* the records check_for_updates writes in silent mode for the three results
\* that end the check before any prompt
QuietRecords ==
    {ULog("warn", "Auto-update check failed to get updater"),
     ULog("info", "No updates available (auto-check)"),
     ULog("warn", "Auto-update check failed")}

\* the check of this cycle ended with one of those three results
EndedQuietly == \E i \in 1..Len(ulog) : ulog[i] \in QuietRecords

\* download_and_install failed in this cycle
InstallFailed == HasULog("error", "Failed to install update")

\* the check of this cycle ended with a failure or with no update
FailedOrNoUpdate == EndedQuietly \/ InstallFailed

\* the dialogs that report a failure or "no update"
ResultDialogs == {"Update Error", "No Updates"}

\* C11: in a check run in silent mode, for every outcome that is a failure
\* (updater unavailable, check error, download/install error) or "no
\* update", no dialog is shown and a log record is written.
C11_SilentShowsNoResult ==
    /\ \A i \in 1..Len(shown) : shown[i] \notin ResultDialogs
    /\ (checks = 1 /\ pc = "sleep" /\ answers = <<>>) => FailedOrNoUpdate

\* C11 as amended: in silent mode the results updater unavailable, check
\* error and "no update" show no dialog at all and write exactly one log
\* record; "No Updates" is never shown; an "Update Error" dialog is shown
\* only for a failed download/install, that is after the "Update Available"
\* prompt was shown and confirmed, and that failure is logged as an error
\* and shown.
C11_SilentShowsOnlyInstallFailure ==
    /\ EndedQuietly =>
          /\ shown = <<>> /\ answers = <<>> /\ pc = "sleep"
          /\ ulog[Len(ulog)] \in QuietRecords
          /\ \A i \in 1..(Len(ulog) - 1) : ulog[i] \notin QuietRecords
    /\ (checks = 1 /\ pc = "sleep" /\ answers = <<>>) => EndedQuietly
    /\ ~Shown("No Updates")
    /\ Shown("Update Error") <=> InstallFailed
    /\ InstallFailed =>
          /\ shown = <<"Update Available", "Update Error">>
          /\ answers # <<>> /\ answers[1] = Answer("Update Available", TRUE)
          /\ ~EndedQuietly

\* a silent check that failed at updater.check(): logged, nothing shown
C11_Witness ==
    pc = "sleep" /\ checks = 1 /\ HasULog("warn", "Auto-update check failed") /\ shown = <<>>

\* a silent check whose download failed: the error dialog is up
C11_WitnessInstallFailed == pc = "install_error" /\ Shown("Update Error")

\* how many records with this message the cycle's log holds
CountULog(msg) == Cardinality({i \in 1..Len(ulog) : ulog[i].msg = msg})

\* the records of the cycle's log that belong to the found update, in order
UpdateRecords ==
    SelectSeq(ulog, LAMBDA r : r.msg \in {"Update available", "User accepted update",
                                          "Update installed successfully",
                                          "Failed to install update"})

Confirmed(dialog) == Answer(dialog, TRUE)
Declined(dialog) == Answer(dialog, FALSE)

\* C12, the states: the application is restarted only when, within the one
\* check of the cycle, an update was found, the install prompt was confirmed,
\* download_and_install succeeded and the restart prompt was confirmed, in
\* that order; an install is attempted only after the confirmed install
\* prompt, and at most once; a declined install prompt leaves no install and
\* no restart prompt; a failed install leaves no restart prompt and no
\* restart; a declined restart prompt leaves no restart.
C12_RestartSequence ==
    /\ pc = "restarted" =>
          /\ checks = 1
          /\ shown = <<"Update Available", "Update Complete">>
          /\ answers = <<Confirmed("Update Available"), Confirmed("Update Complete")>>
          /\ UpdateRecords = <<ULog("info", "Update available"),
                               ULog("info", "User accepted update"),
                               ULog("info", "Update installed successfully")>>
    /\ (pc = "install" \/ CountULog("User accepted update") > 0) =>
          (answers # <<>> /\ answers[1] = Confirmed("Update Available"))
    /\ CountULog("User accepted update") <= 1
    /\ CountULog("Update installed successfully") + CountULog("Failed to install update") <= 1
    /\ (answers # <<>> /\ answers[1] = Declined("Update Available")) =>
          /\ pc = "sleep" /\ Len(answers) = 1
          /\ shown = <<"Update Available">>
          /\ UpdateRecords = <<ULog("info", "Update available")>>
    /\ InstallFailed =>
          /\ pc \in {"install_error", "sleep"}
          /\ ~Shown("Update Complete")
          /\ CountULog("Update installed successfully") = 0
    /\ (Len(answers) = 2 /\ answers[2] = Declined("Update Complete")) => pc = "sleep"

\* C12, the steps: the restart is a step from the restart prompt, the restart
\* prompt a step from the install, the install a step from the install
\* prompt, the install prompt a step from updater.check(); every other way
\* out of a prompt, and out of a failed install, is the return of the check
\* (the task is back at its sleep), not a second attempt.
C12_Step ==
    /\ (pc # "restarted" /\ pc' = "restarted") => pc = "ask_restart"
    /\ (pc # "ask_restart" /\ pc' = "ask_restart") => pc = "install"
    /\ (pc # "install" /\ pc' = "install") => pc = "ask_install"
    /\ (pc # "ask_install" /\ pc' = "ask_install") => pc = "updater_check"
    /\ (pc = "ask_install" /\ pc' # pc) => pc' \in {"install", "sleep"}
    /\ (pc = "install" /\ pc' # pc) => pc' \in {"ask_restart", "install_error"}
    /\ (pc = "install_error" /\ pc' # pc) => pc' = "sleep"
    /\ (pc = "ask_restart" /\ pc' # pc) => pc' \in {"restarted", "sleep"}

\* C12: check_for_updates restarts the application only at the end of the
\* sequence update found, install prompt confirmed, download_and_install
\* succeeded, restart prompt confirmed, within one check; if the user
\* declines either prompt or the install fails, no install resp. no restart
\* happens and the check returns without a retry.
C12_RestartOnlyConfirmed == []C12_RestartSequence /\ [][C12_Step]_vars

\* the application was restarted
C12_Witness == pc = "restarted"

\* the restart prompt was declined
C12_WitnessDeferred == Len(answers) = 2 /\ answers[2] = Declined("Update Complete")

\* the install prompt was declined
C12_WitnessDeclined == answers = <<Declined("Update Available")>>

-----------------------------------------------------------------------------
(* What the claims on the throttle file's errors read off the state.       *)

\* should_check_for_updates could not read the file: no path, or
\* fs::read_to_string gave Err
ReadFailed == ~dir \/ ~file.exists \/ ~file.readable

\* save_update_check_timestamp was called in this cycle and the timestamp was
\* not written
WriteFailed == lastSave.called /\ lastSave.wrote # "ok"

\* the cycle's log holds a warning or an error
HasProblemRecord == \E i \in 1..Len(ulog) : ulog[i].level \in {"warn", "error"}

\* C13, the part on the log: a failed write and a failed read leave a record.
C13_ErrorsLogged ==
    /\ (WriteFailed /\ pc = "check") => HasProblemRecord
    /\ (AfterWake /\ ReadFailed) => HasProblemRecord

\* C13, the part on the decision: a failed read makes the wake perform a
\* check, and a wake whose timestamp is a day or more old is never skipped.
C13_FailOpen ==
    /\ (AfterWake /\ ReadFailed) => decided = "due"
    /\ (AfterWake /\ ~ReadFailed /\ FileParses /\ DayOrMoreAgo) => decided = "due"

\* C13, non-fatal: after a failed write the task goes on to the check, and
\* after a failed read to the save.
C13_NonFatal ==
    /\ WriteFailed => pc # "save"
    /\ (AfterWake /\ ReadFailed) => pc = "save"

\* C13: every failure to read the timestamp file and every failure to write
\* it (an unresolvable app-data directory and a failed directory creation
\* included) leaves the task running, produces a log record, and never makes
\* a wake skip a check that is due; a read failure makes the wake perform a
\* check.
C13_ThrottleErrorsLoggedFailOpen == C13_NonFatal /\ C13_ErrorsLogged /\ C13_FailOpen

\* C13 without the records for the failures the code does not log: a failed
\* fs::write is logged as a warning, the task goes on after every failure,
\* and a failed read makes the wake perform a check.
C13_WriteLoggedFailOpen ==
    /\ C13_NonFatal
    /\ C13_FailOpen
    /\ (lastSave.called /\ lastSave.wrote \in {"create_failed", "write_failed"} /\ pc = "check")
          => HasULog("warn", "Failed to save update check timestamp")

\* the save returned without a path: nothing written, nothing logged
C13_SilentNoDir == pc = "check" /\ lastSave.wrote = "no_dir" /\ ~HasProblemRecord

\* a wake that could not read the file: a check, and no record of the failure
C13_SilentReadFailure == AfterWake /\ dir /\ ReadFailed /\ ~HasProblemRecord

-----------------------------------------------------------------------------
(* What the claims on the task's progress read off the state.              *)

\* the steps at which check_for_updates is inside blocking_show
WaitsOnUser == {"ask_install", "install_error", "ask_restart"}

\* the user's last answer of the cycle
LastAnswer == answers[Len(answers)]

\* the check of this cycle has an outcome that does not restart the
\* application: updater unavailable, check error, no update, install prompt
\* declined, install failed, restart deferred
OutcomeWithoutRestart ==
    \/ EndedQuietly
    \/ InstallFailed
    \/ (answers # <<>> /\ LastAnswer \in {Declined("Update Available"),
                                         Declined("Update Complete")})

\* the task has used up the wakes of the run, or the application restarted
RunOver == wakes = MaxWakes \/ pc = "restarted"

\* C14: the task never terminates while the process runs and goes on after
\* every failure: after every outcome of a check that does not restart the
\* application the task gets back to its sleep, and under fair scheduling it
\* wakes again and again (here: until the wakes of the run are used up).
C14_WakesAgain == [](OutcomeWithoutRestart => <>(pc = "sleep")) /\ <>RunOver

\* C14 for the outcomes that need no further answer: the task is back at its
\* sleep as soon as the outcome is there.
C14_SettledOutcomeSleeps ==
    (EndedQuietly \/ (answers # <<>> /\ LastAnswer.dialog = "Update Error")
        \/ (answers # <<>> /\ ~LastAnswer.ok)) => pc = "sleep"

\* an "Update Available" prompt is up
C14_Prompted == pc = "ask_install" /\ wakes < MaxWakes

\* C15: the task waits only in the timed sleep and in the call to the update
\* service: it is never at a step that only a user's answer ends, and from
\* the start of a check it gets back to its sleep (or restarts the
\* application) whatever the user does.
C15_NeverWaitsOnUser ==
    [](pc \notin WaitsOnUser) /\ [](pc = "check" => <>(pc \in {"sleep", "restarted"}))

\* C15 for the checks that show no dialog: the call to the update service
\* returns, and from there the task is back at its sleep or at a prompt.
C15_ServiceCallReturns ==
    [](pc \in {"check", "updater_check", "install"} => <>(pc \in WaitsOnUser \cup {"sleep"}))

\* the failed install's dialog is up
C15_ErrorDialogUp == pc = "install_error"

-----------------------------------------------------------------------------
(* What the claim on the distance between checks reads off the state.      *)

\* the file is absent, or holds a timestamp a day or more before the clock
StaleOrAbsent == ~file.exists \/ (FileParses /\ DayOrMoreAgo)

\* C16, the states: a wake that is due, with every write so far succeeded, is
\* 86400 seconds or more after the start of the check before it (the check
\* at launch included), and the check it leads to starts at the clock value
\* of that wake; a wake that finds the file stale or absent is due.
C16_DayApart ==
    /\ (decided = "due" /\ pc = "save" /\ writesOk /\ lastCheck.any) =>
          now >= lastCheck.at + UPDATE_CHECK_INTERVAL
    /\ (decided = "due" /\ pc = "check") => lastSave.at = now
    /\ (AfterWake /\ StaleOrAbsent) => decided = "due"

\* C16, the steps: a check starts at the current clock value, and with every
\* write so far succeeded 86400 seconds or more after the one before; a
\* write that fails before the file is opened leaves the file as it was.
C16_Step ==
    /\ checks' > checks =>
          /\ lastCheck' = [any |-> TRUE, at |-> now]
          /\ (lastCheck.any /\ writesOk) => now >= lastCheck.at + UPDATE_CHECK_INTERVAL
    /\ (pc = "save" /\ pc' = "check" /\ lastSave'.wrote \in {"no_dir", "create_failed"}) =>
          file' = file
    /\ now' >= now

\* C16: within one run, with every timestamp write succeeding, nobody else
\* writing the file and the clock not going backwards, two consecutive checks
\* of the task (the one at launch and the first scheduled one included)
\* start 86400 seconds or more apart, although the task polls every hour and
\* a check may take long; and while the writes keep failing and the file is
\* stale or absent, every hourly wake starts a check.
C16_ChecksADayApart == []C16_DayApart /\ [][C16_Step]_vars

\* C16 as amended, the states: as above for a wake that could read the file.
C16_DayApartWhenRead ==
    /\ (decided = "due" /\ pc = "save" /\ writesOk /\ lastCheck.any /\ ~ReadFailed) =>
          now >= lastCheck.at + UPDATE_CHECK_INTERVAL
    /\ (decided = "due" /\ pc = "check") => lastSave.at = now
    /\ (AfterWake /\ (ReadFailed \/ StaleOrAbsent)) => decided = "due"

\* C16 as amended, the steps: as above for a file that can be read.
C16_StepWhenRead ==
    /\ checks' > checks =>
          /\ lastCheck' = [any |-> TRUE, at |-> now]
          /\ (lastCheck.any /\ writesOk /\ ~ReadFailed) =>
                now >= lastCheck.at + UPDATE_CHECK_INTERVAL
    /\ (pc = "save" /\ pc' = "check" /\ lastSave'.wrote \in {"no_dir", "create_failed"}) =>
          file' = file
    /\ now' >= now

\* C16 as amended: within one run, with every timestamp write succeeding,
\* the file readable at every wake, nobody else writing it and the clock not
\* going backwards, two consecutive checks of the task start 86400 seconds or
\* more apart; a wake that cannot read the file starts a check even if the
\* last write succeeded less than a day ago; and while the writes keep
\* failing and the file is stale or absent, every hourly wake starts a check.
C16_ChecksADayApartWhenRead == []C16_DayApartWhenRead /\ [][C16_StepWhenRead]_vars

\* a check an hour after the one before although every write succeeded: the
\* file cannot be read back
C16_HourlyUnreadable ==
    /\ decided = "due" /\ pc = "save" /\ writesOk /\ lastCheck.any /\ dir
    /\ now < lastCheck.at + UPDATE_CHECK_INTERVAL

\* a scheduled check a day after the one before, every write succeeded; the
\* check before took nearly a day
C16_Witness ==
    /\ decided = "due" /\ pc = "check" /\ writesOk /\ file.readable /\ wakes = 1
    /\ now = lastCheck.at + UPDATE_CHECK_INTERVAL

\* checks at two hourly wakes in a row, the write in between failed
C16_WitnessHourly ==
    /\ decided = "due" /\ pc = "save" /\ wakes >= 2 /\ ~writesOk /\ lastCheck.any
    /\ now <= lastCheck.at + POLL_INTERVAL + 1

-----------------------------------------------------------------------------
(* What the claim on the redirect base reads off the state.                *)

\* a text of the form scheme "://" host [":" port]: no userinfo, no path, no
\* query and no fragment of its own
StrictOrigin(o) ==
    /\ Url_parse(o).ok
    /\ Len(o) \in {5, 7}
    /\ SubSeq(o, 2, 4) = <<":", "/", "/">>
    /\ o[5] \notin UrlDelims
    /\ Len(o) = 7 => (o[6] = ":" /\ IsPortWord(o[7]))

\* the callback navigations of the invocation
CallbackNavs == {i \in 1..Len(navs) : IsCallback(navs[i].target)}

\* the hosts a redirect may go to: the allow-list in force
AllowedNow == {get_allowed_hosts[j] : j \in 1..Len(get_allowed_hosts)}

\* the callback URL as window.navigate gets it, parsed
Parsed(i) == Url_parse(navs[i].target)

\* C17, the base: the redirect base of every callback navigation is a strict
\* origin.
C17_BaseIsStrictOrigin ==
    \A i \in CallbackNavs : StrictOrigin(CallbackOrigin(navs[i].target))

\* C17, the URL navigated to: an allow-listed host, the path exactly
\* /desktop-callback, and token as the only query parameter.
C17_CallbackUrlShape ==
    \A i \in CallbackNavs :
        /\ Parsed(i).ok
        /\ Parsed(i).host \in AllowedNow
        /\ Parsed(i).path = <<"/", "desktop-callback">>
        /\ Parsed(i).query = <<"token", "=">> \o CallbackToken(navs[i].target)
        /\ ~Parsed(i).has_fragment

\* C17: for every deep link that leads to a navigation the redirect base is
\* an origin in the strict sense (scheme, host, optional port; no path, query
\* or fragment of its own), so that the callback URL has the allow-listed
\* host, the path exactly /desktop-callback and token as its only query
\* parameter; an origin parameter with a path, query or fragment besides an
\* allow-listed host is never used verbatim as the base.
C17_StrictRedirectBase == C17_BaseIsStrictOrigin /\ C17_CallbackUrlShape

\* C17 for what validate_origin does check: the callback URL has the scheme
\* and the host of the redirect base, and the base is the first origin
\* parameter or the production origin.
C17_HostOfBase ==
    \A i \in CallbackNavs :
        /\ Parsed(i).ok
        /\ Parsed(i).host = Url_parse(CallbackOrigin(navs[i].target)).host
        /\ Parsed(i).scheme = Url_parse(CallbackOrigin(navs[i].target)).scheme
        /\ CallbackOrigin(navs[i].target) \in {PRODUCTION_ORIGIN} \cup LinkOrigins

\* an origin parameter with a path was the base: the token went to
\* /evil/desktop-callback on the allow-listed host
C17_PathInBase ==
    \E i \in CallbackNavs :
        /\ HasKey("origin") /\ Value("origin") = CallbackOrigin(navs[i].target)
        /\ Parsed(i).host = "hackerai.co"
        /\ Parsed(i).path = <<"/", "evil", "/", "desktop-callback">>

====
